---- MODULE Spec2Model ----
(***************************************************************************)
(* Model of xkbgrowl's X11 side (src/x11Util.cpp, src/x11Util.h):          *)
(* opening the XKB display session, capturing one bell event with its      *)
(* window attributes and icon, and rendering the icon through the          *)
(* ImageProxy interface.                                                   *)
(*                                                                         *)
(* A pixel of an image is one 4-byte "unit".  The pixel words of a         *)
(* _NET_WM_ICON property are kept as distinct tags (PixelWord(i)): the     *)
(* code only copies them, so distinct tags show where each one ends up.    *)
(***************************************************************************)
EXTENDS Integers, Sequences, FiniteSets, TLC

VARIABLES
  pc,          \* where the process is: "start", "exited", "open", "event", ...
  exitStatus,  \* status passed to exit(), 0 while running
  exits,       \* <<error, status>> of every failed launch seen so far
  longBytes,   \* sizeof(long) of the build: 4 or 8
  ndebug,      \* TRUE when the build defines NDEBUG (assert compiled out)
  ev,          \* the fields of the BellEventImpl under construction / alive
  srv,         \* what the X server answered during GetAttributesFromWindow
  out,         \* the last provideARGB request and what it produced
  xlog         \* Xlib allocations of the current event: <<op, resource>>

vars == <<pc, exitStatus, exits, longBytes, ndebug, ev, srv, out, xlog>>

----------------------------------------------------------------------------
(* Bounds of the model *)

MaxOpenError == 5   \* XkbOpenDisplay error codes 1..MaxOpenError
MaxWindow == 2      \* window ids 0 (None) .. MaxWindow
MaxSize == 2        \* self-reported icon width/height range over -1..MaxSize
MaxPropLen == 6     \* words in a _NET_WM_ICON property
MaxXPixels == 2     \* pixels (width*height) of an XImage
MaxCoord == 1       \* x, y of a render request range over -1..MaxCoord
MaxSide == 2        \* width, height of a render request range over 1..MaxSide

----------------------------------------------------------------------------
(* Program constants *)

XkbOD_BadLibraryVersion == 1
XkbOD_ConnectionRefused == 2
XkbOD_NonXkbServer == 3
XkbOD_BadServerVersion == 4

EX_UNAVAILABLE == 69
EX_SOFTWARE == 70
EX_CONFIG == 78

None == 0           \* the null Window / Atom
RootWindowId == 1   \* RootWindow(display, DefaultScreen(display))

NullStr == "NULL"   \* a null char* / a null XTextProperty value
kEmptyString == ""

----------------------------------------------------------------------------
(* Display session: X11DisplayDataImpl::X11DisplayDataImpl *)

OpenErrors == 1..MaxOpenError

\* The switch on the error XkbOpenDisplay reports: the status given to exit().
ExitStatus_NonXkbSoftware(error) ==
  IF error = XkbOD_BadLibraryVersion THEN EX_CONFIG
  ELSE IF error = XkbOD_BadServerVersion THEN EX_CONFIG
  ELSE IF error = XkbOD_ConnectionRefused THEN EX_UNAVAILABLE
  ELSE EX_SOFTWARE

ExitStatus(error) ==
  IF error = XkbOD_BadLibraryVersion THEN EX_CONFIG
  ELSE IF error = XkbOD_BadServerVersion THEN EX_CONFIG
  ELSE IF error = XkbOD_ConnectionRefused THEN EX_UNAVAILABLE
  ELSE IF error = XkbOD_NonXkbServer THEN EX_UNAVAILABLE
  ELSE EX_SOFTWARE

\* The cause each case of the switch stands for.
Cause(error) ==
  IF error = XkbOD_BadLibraryVersion THEN "library-too-old"
  ELSE IF error = XkbOD_BadServerVersion THEN "server-too-old"
  ELSE IF error = XkbOD_ConnectionRefused THEN "connection-refused"
  ELSE IF error = XkbOD_NonXkbServer THEN "server-lacks-extension"
  ELSE "unknown"

----------------------------------------------------------------------------
(* Values of the state *)

NoImage == [width |-> 0, height |-> 0, data |-> <<>>]   \* a null XImage*

\* image_proxy_ holding nothing (std::unique_ptr<ImageProxy> default state)
NullProxy ==
  [kind |-> "null", width |-> 0, height |-> 0, pixels |-> <<>>,
   pixmap |-> NoImage, mask |-> NoImage]

NoHints == [present |-> FALSE, flags |-> {}]            \* a null XWMHints*

NullReply == [null |-> TRUE, nitems |-> 0, items |-> <<>>]

\* The members of BellEventImpl before its constructor body runs.  window is
\* event_.bell.window, attrWindow the argument GetAttributesFromWindow got.
NoEvent ==
  [window |-> None, attrWindow |-> None, name_ |-> NullStr,
   windowName_ |-> NullStr, hostName_ |-> NullStr, wmHints_ |-> NoHints,
   image_proxy_ |-> NullProxy]

\* What GetAttributesFromWindow saw: the replies of the three _NET_WM_ICON
\* requests, the width and height read from them, the long_length of the
\* third (fetches counts the requests made), the bytes memcpy'd into the image (-1 when
\* no RawImageProxy was built), whether XGetWMHints was called, and how the
\* reads of the icon window and of the icon pixmap went ("none" = not tried).
NoServer ==
  [r1 |-> NullReply, r2 |-> NullReply, r3 |-> NullReply, fetches |-> 0,
   icon_width |-> 0, icon_height |-> 0, len3 |-> 0, copied |-> 0 - 1, hintsQueried |-> FALSE,
   winRead |-> "none", pixRead |-> "none"]

NoOutput ==
  [status |-> "none", x |-> 0, y |-> 0, width |-> 0, height |-> 0,
   bytes |-> <<>>, oob |-> FALSE]

Init ==
  /\ pc = "start"
  /\ exitStatus = 0
  /\ exits = {}
  /\ longBytes \in {4, 8}
  /\ ndebug \in BOOLEAN
  /\ ev = NoEvent
  /\ srv = NoServer
  /\ out = NoOutput
  /\ xlog = << >>

----------------------------------------------------------------------------
(* Opening the session *)

\* XkbOpenDisplay returned nullptr with `error`: print and exit.
OpenDisplayFails ==
  /\ pc = "start"
  /\ \E error \in OpenErrors :
       /\ exitStatus' = ExitStatus(error)
       /\ exits' = exits \cup {<<error, ExitStatus(error)>>}
  /\ pc' = "exited"
  /\ UNCHANGED <<longBytes, ndebug, ev, srv, out, xlog>>

\* The display opened but XkbSelectEvents failed.
SelectEventsFails ==
  /\ pc = "start"
  /\ exitStatus' = EX_SOFTWARE
  /\ pc' = "exited"
  /\ UNCHANGED <<exits, longBytes, ndebug, ev, srv, out, xlog>>

\* The display opened and bell events are selected.
OpenDisplay ==
  /\ pc = "start"
  /\ pc' = "open"
  /\ UNCHANGED <<exitStatus, exits, longBytes, ndebug, ev, srv, out, xlog>>

\* The program is started again after a failed launch (same build).
Relaunch ==
  /\ pc = "exited"
  /\ pc' = "start"
  /\ exitStatus' = 0
  /\ UNCHANGED <<exits, longBytes, ndebug, ev, srv, out, xlog>>

\* X11DisplayDataImpl::~X11DisplayDataImpl: XCloseDisplay.
CloseDisplay ==
  /\ pc = "open"
  /\ pc' = "closed"
  /\ UNCHANGED <<exitStatus, exits, longBytes, ndebug, ev, srv, out, xlog>>

----------------------------------------------------------------------------
(* The _NET_WM_ICON property and XGetWindowProperty *)

Min(a, b) == IF a < b THEN a ELSE b

SizeVals == (0 - 1)..MaxSize

\* The i-th pixel word of a property (a 32-bit ARGB value), one tag per place.
PixelWord(i) == 100 + i

PadUnit == 900     \* the upper four bytes of a long that holds a 32-bit item
JunkUnit == 999    \* four bytes read from outside the buffer they were asked of

\* Properties of n words: width, height, then pixel words.
PropWordsOfLen(n) ==
  IF n = 0 THEN {<< >>}
  ELSE IF n = 1 THEN {<<w>> : w \in SizeVals}
  ELSE {<<wh[1], wh[2]>> \o [i \in 1..(n - 2) |-> PixelWord(i - 1)] :
          wh \in SizeVals \X SizeVals}

Absent == [present |-> FALSE, words |-> << >>]

PresentProps ==
  {[present |-> TRUE, words |-> ws] :
     ws \in UNION {PropWordsOfLen(n) : n \in 0..MaxPropLen}}

\* XGetWindowProperty(display, window, net_wm_icon, long_offset, long_length,
\* 0, XA_CARDINAL, ...) as the code reads it: result is NULL when the request
\* fails or the property does not exist; otherwise the items from long_offset
\* on, at most long_length of them (long_length is sent as an unsigned 32-bit
\* count, so a negative one asks for everything that is left).
XGetWindowProperty(prop, failed, long_offset, long_length) ==
  IF failed \/ ~prop.present \/ long_offset > Len(prop.words) THEN NullReply
  ELSE LET avail == Len(prop.words) - long_offset
           n == IF long_length < 0 THEN avail ELSE Min(avail, long_length)
       IN [null |-> FALSE, nitems |-> n,
           items |-> SubSeq(prop.words, long_offset + 1, long_offset + n)]

\* The buffer `result` points to, in 4-byte units: Xlib stores each 32-bit
\* item in a long, so with an 8-byte long every item is followed by padding.
Buffer(items) ==
  IF longBytes = 8
  THEN [k \in 1..(2 * Len(items)) |->
          IF k % 2 = 1 THEN items[(k + 1) \div 2] ELSE PadUnit]
  ELSE items

\* *reinterpret_cast<int*>(result): the first unit, or whatever lies there
\* when the reply holds no item.
ReadInt(buf, junk) == IF Len(buf) >= 1 THEN buf[1] ELSE junk

----------------------------------------------------------------------------
(* RawImageProxy *)

\* RawImageProxy::RawImageProxy(width, height, data): num_bytes is
\* width*height*4 converted to size_t; new[] of a negative count throws.
\* memcpy copies num_bytes from data whatever the buffer holds.
RawImageProxy(width, height, data) ==
  LET num_units == width * height
  IN IF num_units < 0
     THEN [threw |-> TRUE, overread |-> FALSE, proxy |-> NullProxy]
     ELSE [threw |-> FALSE,
           overread |-> num_units > Len(data),
           proxy |-> [kind |-> "raw", width |-> width, height |-> height,
                      pixels |-> [i \in 1..num_units |->
                                    IF i <= Len(data) THEN data[i]
                                    ELSE JunkUnit],
                      pixmap |-> NoImage, mask |-> NoImage]]

\* The places a request visits, in the order of the two nested loops:
\* <<column offset, row offset>> for k = 1 .. width*height.
LoopOffsets(width, height) ==
  IF width <= 0 \/ height <= 0 THEN << >>
  ELSE [k \in 1..(width * height) |->
          <<(k - 1) % width, (k - 1) \div width>>]

\* const int p = (((yd + y) * width) + (xd + x)) * 4, in units.
RawIndex(x, y, width, xd, yd) == ((yd + y) * width) + (xd + x)

\* RawImageProxy::provideARGB(x, y, width, height, data).
RawProvideARGB(proxy, x, y, width, height) ==
  LET offs == LoopOffsets(width, height)
      idx(k) == RawIndex(x, y, width, offs[k][1], offs[k][2])
      inside(k) == idx(k) >= 0 /\ idx(k) < Len(proxy.pixels)
  IN [bytes |-> [k \in 1..Len(offs) |->
                   IF inside(k) THEN proxy.pixels[idx(k) + 1] ELSE JunkUnit],
      oob |-> \E k \in 1..Len(offs) : ~inside(k),
      asserted |-> FALSE]

----------------------------------------------------------------------------
(* XImageProxy *)

PixmapVals == {0, 2}      \* pixel values of an icon pixmap (xterm: a palette)
MaskVals == {0, 1}        \* pixel values of a 1-bit mask

\* The XImages of w x h pixels with values in vals, w*h <= MaxXPixels.
XImagesOver(vals) ==
  UNION {{[width |-> d[1], height |-> d[2], data |-> px] :
            px \in [1..(d[1] * d[2]) -> vals]} :
         d \in {e \in (1..MaxXPixels) \X (1..MaxXPixels) :
                  e[1] * e[2] <= MaxXPixels}}

InImage(image, x, y) ==
  x >= 0 /\ x < image.width /\ y >= 0 /\ y < image.height

\* XGetPixel(image, x, y); outside the image it reads what lies there.
XGetPixel(image, x, y, junk) ==
  IF InImage(image, x, y) THEN image.data[(y * image.width) + x + 1] ELSE junk

\* FakeXQueryColor: <<red, green, blue>>, 16 bits each.
FakeXQueryColor(pixel) ==
  IF pixel # 0 THEN <<0, 0, 0>> ELSE <<65535, 65535, 65535>>

\* XImageProxy(pixmap, mask, display, color_map)
XImageProxy(pixmap, mask) ==
  [kind |-> "ximage", width |-> pixmap.width, height |-> pixmap.height,
   pixels |-> << >>, pixmap |-> pixmap, mask |-> mask]

\* assert(x < width_); assert(y < height_);
PixelAssertsHold(proxy, x, y) == x < proxy.width /\ y < proxy.height

providePixel_AlphaFromPixmap(proxy, x, y, junkPixel, junkMask) ==
  LET color == FakeXQueryColor(XGetPixel(proxy.pixmap, x, y, junkPixel))
      alpha == IF proxy.mask # NoImage
               THEN (IF XGetPixel(proxy.pixmap, x, y, junkPixel) # 0
                     THEN 255 ELSE 0)
               ELSE 255
  IN <<alpha, color[1] \div 256, color[2] \div 256, color[3] \div 256>>

\* XImageProxy::providePixel: the four bytes written for pixel (x, y).
providePixel(proxy, x, y, junkPixel, junkMask) ==
  LET color == FakeXQueryColor(XGetPixel(proxy.pixmap, x, y, junkPixel))
      alpha == IF proxy.mask # NoImage
               THEN (IF XGetPixel(proxy.mask, x, y, junkMask) # 0
                     THEN 255 ELSE 0)
               ELSE 255
  IN <<alpha, color[1] \div 256, color[2] \div 256, color[3] \div 256>>

\* XImageProxy::provideARGB(x, y, width, height, data).  With assert compiled
\* in, the first pixel that fails an assert aborts the process.
XProvideARGB(proxy, x, y, width, height, junkPixel, junkMask) ==
  LET offs == LoopOffsets(width, height)
      px(k) == x + offs[k][1]
      py(k) == y + offs[k][2]
      bad == {k \in 1..Len(offs) :
                ~ndebug /\ ~PixelAssertsHold(proxy, px(k), py(k))}
      n == IF bad = {} THEN Len(offs)
           ELSE (CHOOSE k \in bad : \A j \in bad : k <= j) - 1
  IN [bytes |-> [k \in 1..n |->
                   providePixel(proxy, px(k), py(k), junkPixel, junkMask)],
      oob |-> \E k \in 1..n :
                \/ ~InImage(proxy.pixmap, px(k), py(k))
                \/ proxy.mask # NoImage /\ ~InImage(proxy.mask, px(k), py(k)),
      asserted |-> bad # {}]

----------------------------------------------------------------------------
(* What the server may answer for one event *)

EventWindows == 0..MaxWindow          \* event_.bell.window, None included
BellNames == {NullStr, "bell"}        \* name_: no atom, or XGetAtomName's string
TitleReplies == {NullStr, "xterm"}    \* XFetchName: failed, or the title
HostReplies == {NullStr, "host"}      \* XGetWMClientMachine: failed, or the value

HintFlags == {"IconWindowHint", "IconPixmapHint", "IconMaskHint"}

HintsReplies ==
  {NoHints} \cup {[present |-> TRUE, flags |-> f] : f \in SUBSET HintFlags}

\* The answers GetImage can meet: XGetGeometry fails, XGetImage fails, or an
\* image comes back.
NoReply == [status |-> FALSE, image |-> NoImage]

GetImageReplies(vals) ==
  {NoReply, [status |-> TRUE, image |-> NoImage]}
    \cup {[status |-> TRUE, image |-> i] : i \in XImagesOver(vals)}

\* GetImage(display, drawable)
GetImage(reply) == IF reply.status THEN reply.image ELSE NoImage

\* A property whose first request hits an X error (the window is gone, say).
ErrProps == {[present |-> TRUE, words |-> <<1, 1, PixelWord(0)>>]}

\* <<the window's _NET_WM_ICON, the number of the request that errors or 0>>
PropertyCases ==
  {<<Absent, 0>>}
    \cup {<<p, 1>> : p \in ErrProps}
    \cup {<<p, f>> : p \in PresentProps, f \in {0, 2, 3}}

----------------------------------------------------------------------------
(* BellEventImpl::BellEventImpl and GetAttributesFromWindow *)

\* The old-school icon of GetAttributesFromWindow (wmHints_ already fetched):
\* the icon window's image if it can be read, else the pixmap with its mask.
\* What Xlib hands out and takes back.  Every non-null pointer returned by
\* XGetAtomName, XFetchName, XGetWMClientMachine, XGetWindowProperty,
\* XGetWMHints and XGetImage is an allocation ("get"); XFree and
\* XDestroyImage give it back ("free"); a read through it is a "use".
\* Images are named after the XImageProxy member that ends up holding them.
Acquired(got, res) == IF got THEN << <<"get", res>> >> ELSE << >>

Released(held, res) == IF held THEN << <<"free", res>> >> ELSE << >>

\* Lines 375-377, 380-382, 386-388: a property buffer is read, then XFree'd.
ReadAndFree(got, res) ==
  IF got THEN << <<"get", res>>, <<"use", res>>, <<"free", res>> >>
  ELSE << >>

\* Lines 303, 358, 362: the strings obtained before the icon is looked for.
StringsLog(base) ==
  Acquired(base.name_ # NullStr, "name_")
    \o Acquired(base.windowName_ # NullStr, "windowName_")
    \o Acquired(base.hostName_ # NullStr, "hostName_")

HintsIcon(hints, winReply, pixReply, maskReply) ==
  IF ~hints.present THEN NullProxy
  ELSE IF "IconWindowHint" \in hints.flags /\ GetImage(winReply) # NoImage
    THEN XImageProxy(GetImage(winReply), NoImage)
  ELSE IF "IconPixmapHint" \in hints.flags /\ GetImage(pixReply) # NoImage
    THEN XImageProxy(GetImage(pixReply),
                     IF "IconMaskHint" \in hints.flags
                     THEN GetImage(maskReply) ELSE NoImage)
  ELSE NullProxy

\* Lines 393-418: the window hints are fetched and the icon built from them.
IconFromHints(base, r1) ==
  \E hints \in HintsReplies :
    \E winReply \in (IF hints.present /\ "IconWindowHint" \in hints.flags
                     THEN GetImageReplies(PixmapVals) ELSE {NoReply}) :
      \E pixReply \in (IF /\ hints.present
                          /\ "IconPixmapHint" \in hints.flags
                          /\ GetImage(winReply) = NoImage
                       THEN GetImageReplies(PixmapVals) ELSE {NoReply}) :
        \E maskReply \in (IF /\ GetImage(pixReply) # NoImage
                             /\ "IconMaskHint" \in hints.flags
                          THEN GetImageReplies(MaskVals) ELSE {NoReply}) :
          /\ ev' = [base EXCEPT
                      !.wmHints_ = hints,
                      !.image_proxy_ =
                         HintsIcon(hints, winReply, pixReply, maskReply)]
          /\ srv' = [NoServer EXCEPT
                       !.r1 = r1, !.fetches = 1, !.hintsQueried = TRUE,
                       !.winRead =
                          IF hints.present /\ "IconWindowHint" \in hints.flags
                          THEN (IF GetImage(winReply) # NoImage
                                THEN "ok" ELSE "failed")
                          ELSE "none",
                       !.pixRead =
                          IF /\ hints.present
                             /\ "IconPixmapHint" \in hints.flags
                             /\ GetImage(winReply) = NoImage
                          THEN (IF GetImage(pixReply) # NoImage
                                THEN "ok" ELSE "failed")
                          ELSE "none"]
          /\ xlog' = StringsLog(base)
                       \o Acquired(hints.present, "wmHints_")
                       \o Acquired(GetImage(winReply) # NoImage, "pixmap_")
                       \o Acquired(GetImage(pixReply) # NoImage, "pixmap_")
                       \o Acquired(GetImage(maskReply) # NoImage, "mask_")
          /\ pc' = "event"

\* Lines 375-391: the first request returned data; width, height and the
\* pixels are fetched, the image is built if all three came back, and the
\* function returns.
IconFromProperty(base, prop, failAt, r1) ==
  \E junkW \in (IF r1.nitems = 0 THEN SizeVals ELSE {0}) :
    LET icon_width == ReadInt(Buffer(r1.items), junkW)
        r2 == XGetWindowProperty(prop, failAt = 2, 1, 1)
    IN \E junkH \in (IF ~r2.null /\ r2.nitems = 0 THEN SizeVals ELSE {0}) :
         LET icon_height == ReadInt(Buffer(r2.items), junkH)
             icon_size == icon_width * icon_height
             r3 == IF r2.null THEN NullReply
                   ELSE XGetWindowProperty(prop, failAt = 3, 2, icon_size)
             raw == IF r3.null
                    THEN [threw |-> FALSE, overread |-> FALSE,
                          proxy |-> NullProxy]
                    ELSE RawImageProxy(icon_width, icon_height,
                                       Buffer(r3.items))
             \* reads past the end of a reply's buffer are undefined
             undefined == \/ r1.nitems = 0
                          \/ ~r2.null /\ r2.nitems = 0
                          \/ raw.overread
         IN /\ ev' = [base EXCEPT !.image_proxy_ = raw.proxy]
            /\ srv' = [NoServer EXCEPT
                         !.r1 = r1, !.r2 = r2, !.r3 = r3,
                         !.fetches = IF r2.null THEN 2 ELSE 3,
                         !.icon_width = icon_width,
                         !.icon_height = IF r2.null THEN 0 ELSE icon_height,
                         !.len3 = IF r2.null THEN 0 ELSE icon_size,
                         !.copied = IF r3.null \/ raw.threw THEN 0 - 1
                                    ELSE icon_width * icon_height * 4]
            \* new[] throws before the memcpy and the XFree of line 388
            /\ xlog' = StringsLog(base)
                         \o ReadAndFree(TRUE, "result1")
                         \o ReadAndFree(~r2.null, "result2")
                         \o (IF raw.threw THEN Acquired(TRUE, "result3")
                             ELSE ReadAndFree(~r3.null, "result3"))
            /\ IF raw.threw THEN pc' = "ctor_threw"
               ELSE IF undefined THEN pc' \in {"event", "ctor_crashed"}
               ELSE pc' = "event"

\* X11DisplayDataImpl::NextBellEvent: new BellEventImpl(this).  The
\* constructor takes the next event, names it, picks the window (the root
\* window when the event has none) and runs GetAttributesFromWindow on it.
NextBellEventFrom(Wins, Names, Titles, Hosts) ==
  /\ pc = "open"
  /\ xlog = << >>              \* the log is that of one event
  /\ \E window \in Wins, name \in Names, title \in Titles, host \in Hosts :
       LET attrWindow == IF window # None THEN window ELSE RootWindowId
           base == [NoEvent EXCEPT
                      !.window = window, !.name_ = name,
                      !.attrWindow = attrWindow,
                      !.windowName_ = title, !.hostName_ = host]
       IN IF attrWindow = None /\ ~ndebug
          THEN /\ pc' = "ctor_aborted"      \* assert(window)
               /\ ev' = [NoEvent EXCEPT !.window = window, !.name_ = name]
               /\ srv' = NoServer
               /\ xlog' = Acquired(name # NullStr, "name_")
          ELSE \E c \in PropertyCases :
                 LET r1 == XGetWindowProperty(c[1], c[2] = 1, 0, 1)
                 IN IF r1.null
                    THEN IconFromHints(base, r1)
                    ELSE IconFromProperty(base, c[1], c[2], r1)
  /\ out' = NoOutput
  /\ UNCHANGED <<exitStatus, exits, longBytes, ndebug>>

NextBellEvent ==
  NextBellEventFrom(EventWindows, BellNames, TitleReplies, HostReplies)

\* The same with a window that has a name, a title and a client machine.
NextBellEventNamed ==
  NextBellEventFrom({MaxWindow}, {"bell"}, {"xterm"}, {"host"})

\* Lines 314-330, then the members: image_proxy_ deletes its proxy, and
\* XImageProxy::~XImageProxy (166-173) destroys the images it owns.
DestructorLog(event) ==
  Released(event.name_ # NullStr, "name_")
    \o Released(event.windowName_ # NullStr, "windowName_")
    \o Released(event.wmHints_.present, "wmHints_")
    \o Released(event.hostName_ # NullStr, "hostName_")
    \o Released(/\ event.image_proxy_.kind = "ximage"
                /\ event.image_proxy_.pixmap # NoImage, "pixmap_")
    \o Released(/\ event.image_proxy_.kind = "ximage"
                /\ event.image_proxy_.mask # NoImage, "mask_")

\* BellEventImpl::~BellEventImpl: the caller deletes the event.
DestroyEvent ==
  /\ pc = "event"
  /\ pc' = "open"
  /\ ev' = NoEvent
  /\ srv' = NoServer
  /\ out' = NoOutput
  /\ xlog' = xlog \o DestructorLog(ev)
  /\ UNCHANGED <<exitStatus, exits, longBytes, ndebug>>

\* The caller goes back to wait for the next event; the allocations of the
\* deleted one are no longer followed.
EventGone ==
  /\ pc = "open"
  /\ xlog # << >>
  /\ xlog' = << >>
  /\ UNCHANGED <<pc, exitStatus, exits, longBytes, ndebug, ev, srv, out>>


----------------------------------------------------------------------------
(* Accessors of BellEventImpl *)

imageProxy == ev.image_proxy_

windowName == IF ev.windowName_ # NullStr THEN ev.windowName_ ELSE kEmptyString

hostName == IF ev.hostName_ # NullStr THEN ev.hostName_ ELSE kEmptyString

----------------------------------------------------------------------------
(* Rendering through the ImageProxy interface *)

Coords == (0 - 1)..MaxCoord
Sides == 1..MaxSide

\* image_proxy_->provideARGB(x, y, width, height, data) on the event's image.
\* A read outside the image is undefined: it yields whatever lies there, or
\* the process dies.
Render(x, y, width, height) ==
  /\ pc = "event"
  /\ imageProxy.kind # "null"
  /\ out = NoOutput              \* the caller's buffer is free
  /\ LET proxy == imageProxy
         probe == IF proxy.kind = "raw"
                  THEN RawProvideARGB(proxy, x, y, width, height)
                  ELSE XProvideARGB(proxy, x, y, width, height, 0, 0)
     IN \E junkPixel \in (IF proxy.kind = "ximage" /\ probe.oob
                          THEN PixmapVals ELSE {0}) :
          \E junkMask \in (IF /\ proxy.kind = "ximage"
                              /\ probe.oob
                              /\ proxy.mask # NoImage
                           THEN MaskVals ELSE {0}) :
            \E crash \in (IF probe.oob THEN BOOLEAN ELSE {FALSE}) :
              LET r == IF proxy.kind = "raw" THEN probe
                       ELSE XProvideARGB(proxy, x, y, width, height,
                                         junkPixel, junkMask)
                  status == IF crash THEN "crashed"
                            ELSE IF r.asserted THEN "aborted"
                            ELSE "ok"
              IN /\ out' = [status |-> status, x |-> x, y |-> y,
                            width |-> width, height |-> height,
                            bytes |-> IF status = "ok" THEN r.bytes
                                      ELSE << >>,
                            oob |-> r.oob]
                 /\ pc' = IF status = "ok" THEN "event"
                          ELSE IF status = "aborted" THEN "render_aborted"
                          ELSE "render_crashed"
  /\ UNCHANGED <<exitStatus, exits, longBytes, ndebug, ev, srv, xlog>>

\* provideARGB(x, y, width, height, data) for some rectangle.
ProvideARGB ==
  \E x \in Coords, y \in Coords, width \in Sides, height \in Sides :
    Render(x, y, width, height)

\* ImageProxy::provideARGB(void* data): the whole image.
ProvideARGBWhole ==
  Render(0, 0, imageProxy.width, imageProxy.height)

\* The caller has used the bytes of a finished request and may ask again.
TakeOutput ==
  /\ pc = "event"
  /\ out # NoOutput
  /\ out' = NoOutput
  /\ UNCHANGED <<pc, exitStatus, exits, longBytes, ndebug, ev, srv, xlog>>

----------------------------------------------------------------------------
(* Specifications *)

\* The session and its events, each event rendered whole.
Next ==
  \/ OpenDisplayFails
  \/ SelectEventsFails
  \/ OpenDisplay
  \/ NextBellEvent
  \/ ProvideARGBWhole
  \/ TakeOutput
  \/ DestroyEvent
  \/ EventGone
  \/ CloseDisplay

Spec == Init /\ [][Next]_vars

\* Launches of the program, one after the other, until one opens the display.
NextOpen ==
  \/ OpenDisplayFails
  \/ SelectEventsFails
  \/ OpenDisplay
  \/ Relaunch
  \/ CloseDisplay

SpecOpen == Init /\ [][NextOpen]_vars

\* Events of a fully described window, rendered rectangle by rectangle.
NextRender ==
  \/ OpenDisplay
  \/ NextBellEventNamed
  \/ ProvideARGB
  \/ ProvideARGBWhole
  \/ TakeOutput
  \/ DestroyEvent
  \/ EventGone

SpecRender == Init /\ [][NextRender]_vars

\* Events of a fully described window, each rendered whole.
NextIcon ==
  \/ OpenDisplay
  \/ NextBellEventNamed
  \/ ProvideARGBWhole
  \/ TakeOutput
  \/ DestroyEvent
  \/ EventGone

SpecIcon == Init /\ [][NextIcon]_vars

----------------------------------------------------------------------------
(* Claims *)

\* The exit statuses fall into three classes (sysexits).
StatusClass(cause) ==
  IF cause \in {"library-too-old", "server-too-old"} THEN "configuration"
  ELSE IF cause \in {"connection-refused", "server-lacks-extension"}
    THEN "unavailable"
  ELSE "software"

\* C1 (as stated): launches that fail to open the display for two different
\* causes never end with the same exit status.
C1_DistinctStatusPerCause ==
  \A p \in exits, q \in exits :
    Cause(p[1]) # Cause(q[1]) => p[2] # q[2]

\* C1 (amended): every failed open ends the process with a non-zero status,
\* and two failures end with the same status exactly when their causes are of
\* the same class: library-too-old and server-too-old (configuration),
\* connection-refused and server-lacks-extension (unavailable), unknown
\* (software).  Three statuses, not five.
C1_StatusPerCauseClass ==
  /\ \A p \in exits : p[2] # 0
  /\ \A p \in exits, q \in exits :
       (p[2] = q[2]) <=> (StatusClass(Cause(p[1])) = StatusClass(Cause(q[1])))
  /\ (pc = "exited" => exitStatus # 0)

\* Launches have failed for each of the five causes.
C1_AllFiveCausesSeen ==
  /\ pc = "exited"
  /\ Cardinality({Cause(p[1]) : p \in exits}) = 5

\* The window's property was a valid icon: a width and a height, both
\* positive, and width*height pixel words behind them.
ValidIconProperty ==
  /\ ~srv.r1.null /\ srv.r1.nitems = 1
  /\ ~srv.r2.null /\ srv.r2.nitems = 1
  /\ ~srv.r3.null
  /\ srv.r1.items[1] > 0
  /\ srv.r2.items[1] > 0
  /\ srv.r3.nitems = srv.r1.items[1] * srv.r2.items[1]

\* The last request lies inside the event's image.
RequestInBounds ==
  /\ out.x >= 0
  /\ out.y >= 0
  /\ out.x + out.width <= imageProxy.width
  /\ out.y + out.height <= imageProxy.height

\* The event holds an inline-property image whose storage is width x height.
StoredRawImage ==
  /\ pc = "event"
  /\ imageProxy.kind = "raw"
  /\ imageProxy.width > 0
  /\ imageProxy.height > 0
  /\ Len(imageProxy.pixels) = imageProxy.width * imageProxy.height

\* Two tiles, columns [0, k) and [k, W), put side by side.
TwoTiles(proxy, k) ==
  LET W == proxy.width
      H == proxy.height
      left == RawProvideARGB(proxy, 0, 0, k, H).bytes
      right == RawProvideARGB(proxy, k, 0, W - k, H).bytes
  IN [n \in 1..(W * H) |->
        LET c == (n - 1) % W
            r == (n - 1) \div W
        IN IF c < k THEN left[(r * k) + c + 1]
           ELSE right[(r * (W - k)) + (c - k) + 1]]

\* C2: for an inline-property image of W x H, the pixel a request in bounds
\* emits for (x+i, y+j) is the stored pixel of row y+j, column x+i, and two
\* tiles that cover the image give the bytes of the one full-image request.
C2_TilingInvariance ==
  (StoredRawImage /\ ValidIconProperty) =>
    /\ (out.status = "ok" /\ RequestInBounds) =>
         \A i \in 0..(out.width - 1), j \in 0..(out.height - 1) :
           out.bytes[(j * out.width) + i + 1] =
             imageProxy.pixels[((out.y + j) * imageProxy.width)
                                 + (out.x + i) + 1]
    /\ \A k \in 1..(imageProxy.width - 1) :
         TwoTiles(imageProxy, k) =
           RawProvideARGB(imageProxy, 0, 0,
                          imageProxy.width, imageProxy.height).bytes

\* C3: a request whose rectangle is not inside the image is rejected, and no
\* request ever reads a pixel outside the image's storage.
C3_OutOfBoundsRejected ==
  out.status # "none" =>
    /\ ~out.oob
    /\ (~RequestInBounds => out.status = "aborted")

WholeImageRequest ==
  /\ out.status = "ok"
  /\ out.x = 0
  /\ out.y = 0
  /\ out.width = imageProxy.width
  /\ out.height = imageProxy.height

\* C4: for a valid inline icon property of W x H the whole-image request
\* writes W*H pixels (W*H*4 bytes), and they are the property's pixel words
\* in their order.
C4_WholeImageIsProperty ==
  (pc = "event" /\ imageProxy.kind = "raw" /\ ValidIconProperty
     /\ WholeImageRequest) =>
    /\ Len(out.bytes) = srv.r1.items[1] * srv.r2.items[1]
    /\ out.bytes = srv.r3.items

\* The image place the k-th pixel of the last request stands for.
OutX(k) == out.x + ((k - 1) % out.width)
OutY(k) == out.y + ((k - 1) \div out.width)

\* C5: for a pixmap-pair image every rendered pixel's alpha byte is 0xFF when
\* the image has no mask; with a mask it is 0xFF where the mask pixel at that
\* place is non-zero and 0x00 where it is zero; and the colour bytes are those
\* the same image gives without its mask.
C5_AlphaMirrorsMask ==
  (pc = "event" /\ imageProxy.kind = "ximage" /\ out.status = "ok") =>
    LET unmasked == XProvideARGB([imageProxy EXCEPT !.mask = NoImage],
                                 out.x, out.y, out.width, out.height, 0, 0)
    IN \A k \in 1..Len(out.bytes) :
         /\ imageProxy.mask = NoImage => out.bytes[k][1] = 255
         /\ (imageProxy.mask # NoImage
               /\ InImage(imageProxy.mask, OutX(k), OutY(k))) =>
              out.bytes[k][1] =
                (IF imageProxy.mask.data[(OutY(k) * imageProxy.mask.width)
                                           + OutX(k) + 1] # 0
                 THEN 255 ELSE 0)
         /\ InImage(imageProxy.pixmap, OutX(k), OutY(k)) =>
              SubSeq(out.bytes[k], 2, 4) = SubSeq(unmasked.bytes[k], 2, 4)

\* A masked image came out with an opaque and a transparent pixel, over
\* pixmap pixels of the same value.
C5_MaskedImageRendered ==
  /\ pc = "event"
  /\ imageProxy.kind = "ximage"
  /\ imageProxy.mask # NoImage
  /\ out.status = "ok"
  /\ \E k \in 1..Len(out.bytes), m \in 1..Len(out.bytes) :
       /\ out.bytes[k][1] = 255
       /\ out.bytes[m][1] = 0
       /\ SubSeq(out.bytes[k], 2, 4) = SubSeq(out.bytes[m], 2, 4)

\* Every read the constructor made of a reply's buffer stayed inside it.
ReadsInBounds ==
  /\ (~srv.r1.null => srv.r1.nitems >= 1)
  /\ (~srv.r2.null => srv.r2.nitems >= 1)
  /\ srv.copied <= Len(Buffer(srv.r3.items)) * 4

ConstructorRan == pc \notin {"start", "exited", "open", "closed"}

ConstructorFailed == pc \in {"ctor_threw", "ctor_crashed", "ctor_aborted"}

\* C6: for an event without a window the attributes are resolved on the
\* root window, never on the null window, and the resolution completes with a
\* title and a hostname that are a value or empty and an icon that is an image
\* or absent.  (Stated for the runs whose reads stay inside their buffers.)
C6_AbsentWindowResolvesOnRoot ==
  (ConstructorRan /\ ev.window = None /\ ReadsInBounds) =>
    /\ ev.attrWindow = RootWindowId
    /\ ev.attrWindow # None
    /\ ~ConstructorFailed
    /\ windowName # NullStr
    /\ hostName # NullStr
    /\ imageProxy.kind \in {"null", "raw", "ximage"}

\* C7: a non-null imageProxy() has width > 0, height > 0 and storage for
\* width*height pixels; without an icon, or when a fetch of it failed,
\* imageProxy() is null.  (Stated for the runs whose reads stay inside their
\* buffers.)
C7_ImageProxyWholeOrNull ==
  (pc = "event" /\ ReadsInBounds) =>
    /\ imageProxy.kind # "null" =>
         /\ imageProxy.width > 0
         /\ imageProxy.height > 0
         /\ (imageProxy.kind = "raw" =>
               Len(imageProxy.pixels) = imageProxy.width * imageProxy.height)
         /\ (imageProxy.kind = "ximage" =>
               Len(imageProxy.pixmap.data) =
                 imageProxy.width * imageProxy.height)
    /\ (~srv.r1.null /\ (srv.r2.null \/ srv.r3.null)) =>
         imageProxy.kind = "null"
    /\ (srv.hintsQueried /\ srv.winRead # "ok" /\ srv.pixRead # "ok") =>
         imageProxy.kind = "null"

\* C8: NextBellEvent returns an event whatever fails while its metadata is
\* fetched; a failed title or hostname reads as the empty string and a failed
\* icon as a null imageProxy().  (Stated for the runs whose reads stay inside
\* their buffers.)
C8_EventNeverDropped ==
  (ConstructorRan /\ ReadsInBounds) =>
    /\ ~ConstructorFailed
    /\ (ev.windowName_ = NullStr => windowName = kEmptyString)
    /\ (ev.hostName_ = NullStr => hostName = kEmptyString)
    /\ ((~srv.r1.null /\ (srv.r2.null \/ srv.r3.null)) =>
          imageProxy.kind = "null")

\* The inline property was fetched whole: width, height and pixels.
InlineFetched == ~srv.r1.null /\ ~srv.r2.null /\ ~srv.r3.null

\* C9: the inline property is the icon exactly when its width, height and
\* pixels were all fetched; in every other case the window hints are looked
\* at, where a readable icon window wins over the pixmap/mask pair and the
\* pair is used when the icon window cannot be read.  (Stated for the runs
\* whose reads stay inside their buffers.)
C9_ProbeOrder ==
  (pc = "event" /\ ReadsInBounds) =>
    /\ (imageProxy.kind = "raw") <=> InlineFetched
    /\ ~InlineFetched => srv.hintsQueried
    /\ srv.winRead = "ok" =>
         (imageProxy.kind = "ximage" /\ srv.pixRead = "none")
    /\ srv.pixRead = "ok" =>
         (imageProxy.kind = "ximage" /\ srv.winRead # "ok")

\* C10: the third request asks for exactly width*height items from offset 2,
\* and the bytes copied into the image never exceed the bytes of data the
\* server returned for that request.
C10_NoOverRead ==
  srv.fetches = 3 =>
    /\ srv.len3 = srv.icon_width * srv.icon_height
    /\ srv.copied <= srv.r3.nitems * 4

\* How often op was applied to res during the current event's lifetime.
Count(op, res) ==
  Cardinality({i \in DOMAIN xlog : xlog[i] = <<op, res>>})

TemporaryBuffers == {"result1", "result2", "result3"}

RetainedResources ==
  {"name_", "windowName_", "hostName_", "wmHints_", "pixmap_", "mask_"}

\* The event has been deleted, or its constructor was left by an exception.
LifetimeOver ==
  \/ pc \in {"open", "closed"} /\ xlog # << >>
  \/ pc = "ctor_threw"

\* C11: over an event's lifetime every buffer or image obtained from the
\* server is released exactly once, never twice and never used after its
\* release: the property buffers are freed by the time
\* GetAttributesFromWindow has been left, nothing the event retains is
\* released while the event is alive, and the name, title, hostname, hints
\* and icon/mask images are all released once the event's lifetime is over.
C11_ResourceBalance ==
  /\ \A res \in TemporaryBuffers \cup RetainedResources :
       /\ Count("free", res) <= Count("get", res)
       /\ Count("get", res) <= 1
       /\ \A i, j \in DOMAIN xlog :
            (xlog[i] = <<"free", res>> /\ xlog[j] = <<"use", res>>) => j < i
  /\ pc \in {"event", "ctor_threw"} =>
       \A res \in TemporaryBuffers : Count("free", res) = Count("get", res)
  /\ pc = "event" =>
       \A res \in RetainedResources : Count("free", res) = 0
  /\ LifetimeOver =>
       \A res \in TemporaryBuffers \cup RetainedResources :
         Count("free", res) = Count("get", res)

====
